---- MODULE Spec2Model ----
(***************************************************************************)
(* Model of src/neural_network.py: the graph builders dense_relu,          *)
(* dense_relu_bn_drop and dense_nn, and the execution of the graph dense_nn *)
(* returns (predictions, relative error and the two error-rate metrics).   *)
(*                                                                         *)
(* The default graph is a sequence of nodes in creation order; a tensor    *)
(* handle is the index of its node.  Numbers are exact: a float is one of  *)
(* NaN, +Inf, -Inf or a quotient num/den of integers, so float32 rounding  *)
(* is not modelled.  The weights (random initial values, later trained)    *)
(* and the batch statistics are not modelled: the pre-activation W.x + b   *)
(* of the prediction layer is drawn from a set of integers.  The seed only *)
(* parameterises the weight initializer and is left out.                   *)
(***************************************************************************)
EXTENDS Integers, Sequences, FiniteSets

VARIABLES
    graph,          \* the default graph: sequence of nodes
    args,           \* arguments of the most recent dense_nn call
    outcome,        \* "none" | "returned" | "IndexError": how that call ended
    nn,             \* the named tuple the call returned (NoBundle if none)
    feed,           \* feed_dict prepared for the evaluation of the metrics
    ran,            \* "none" | "predict" | "evaluate": last session run
    bn_mode,        \* mode each batch-normalization node ran in (TRUE = training)
    predictions,    \* fetched nn.predictions, flattened row by row
    relative_error, \* fetched relative_error, flattened
    err_2pc,        \* fetched nn.err_2pc
    err_1pc         \* fetched nn.err_1pc

vars == <<graph, args, outcome, nn, feed, ran, bn_mode, predictions,
          relative_error, err_2pc, err_1pc>>

-----------------------------------------------------------------------------
(* Bounds *)

MaxFeatures == 2
MaxUnits == 2
MaxLayers == 2
MaxLabels == 2
MaxRows == 1
MaxBatch == 3

RECURSIVE SeqsUpTo(_, _)
SeqsUpTo(S, n) ==
    IF n = 0 THEN {<<>>}
    ELSE LET shorter == SeqsUpTo(S, n - 1)
         IN  shorter \cup {Append(s, x) : s \in {t \in shorter : Len(t) = n - 1}, x \in S}

SeqsOfLen(S, n) == {s \in SeqsUpTo(S, n) : Len(s) = n}

LayerSpecs == SeqsUpTo(1..MaxUnits, MaxLayers)

\* Pre-activations of the prediction layer drawn when only predictions are fetched.
PreActs == {-1, 0, 1}

\* Pre-activations and labels drawn for the metrics: around a label of 200 the
\* predictions 201..205 have relative errors 0.5%, 1%, 1.5%, 2%, 2.5%.
EvalPreActs == {-1, 201, 202, 203, 204, 205}

\* A fed label: sign and magnitude, so that 0.0 and -0.0 are both inputs.
Label(neg, mag) == [neg |-> neg, mag |-> mag]
EvalLabels == {Label(FALSE, 200), Label(TRUE, 200), Label(FALSE, 0), Label(TRUE, 0)}

-----------------------------------------------------------------------------
(* Floats *)

Fin(n, d) == [kind |-> "fin", num |-> n, den |-> d]
NaN == [kind |-> "nan", num |-> 0, den |-> 0]
PosInf == [kind |-> "inf", num |-> 0, den |-> 0]
NegInf == [kind |-> "-inf", num |-> 0, den |-> 0]

LabelVal(l) == IF l.neg THEN 0 - l.mag ELSE l.mag

Abs(x) == IF x < 0 THEN 0 - x ELSE x

\* Faulty variant of TrueDiv: a division guarded against a zero denominator.
TrueDivGuarded(a, l) == IF l.mag # 0 THEN Fin(a, LabelVal(l)) ELSE Fin(a, 1)

\* a / l in IEEE arithmetic, a an integer and l a fed label
TrueDiv(a, l) ==
    IF l.mag # 0 THEN Fin(a, LabelVal(l))
    ELSE IF a = 0 THEN NaN
    ELSE IF (a < 0) = l.neg THEN PosInf
    ELSE NegInf

\* Faulty variant of Greater: tf.greater_equal in place of tf.greater.
GreaterEqual(x, thr) ==
    CASE x.kind = "nan" -> FALSE
      [] x.kind = "inf" -> TRUE
      [] x.kind = "-inf" -> FALSE
      [] OTHER -> IF x.den > 0 THEN x.num * thr[2] >= thr[1] * x.den
                  ELSE x.num * thr[2] <= thr[1] * x.den

\* tf.greater(x, n/d) with d > 0; every comparison with NaN is false
Greater(x, thr) ==
    CASE x.kind = "nan" -> FALSE
      [] x.kind = "inf" -> TRUE
      [] x.kind = "-inf" -> FALSE
      [] OTHER -> IF x.den > 0 THEN x.num * thr[2] > thr[1] * x.den
                  ELSE x.num * thr[2] < thr[1] * x.den

Cast(b) == IF b THEN 1 ELSE 0

RECURSIVE Sum(_)
Sum(s) == IF s = <<>> THEN 0 ELSE Head(s) + Sum(Tail(s))

\* tf.reduce_mean of a tensor of 0/1 floats: the mean of no element is 0/0
ReduceMean(s) == IF Len(s) = 0 THEN NaN ELSE Fin(Sum(s), Len(s))

\* x <= y on floats
LessEq(x, y) ==
    /\ x.kind = "fin" /\ y.kind = "fin"
    /\ x.den > 0 /\ y.den > 0
    /\ x.num * y.den <= y.num * x.den

\* the float x equals n/d
IsFraction(x, n, d) == x.kind = "fin" /\ x.den > 0 /\ x.num * d = n * x.den

-----------------------------------------------------------------------------
(* Graph nodes *)

NoThr == <<0, 1>>

Node(op, name, src, src2, shape, dim_in, activation, training, pkeep, thr) ==
    [op |-> op, name |-> name, src |-> src, src2 |-> src2, shape |-> shape,
     dim_in |-> dim_in, activation |-> activation, training |-> training,
     pkeep |-> pkeep, thr |-> thr]

\* A node's name: the name scope, the index formatted into it, the inner scope.
Name(scope, i, inner) == <<scope, i, inner>>

\* tf.placeholder(dtype, shape, name)
Placeholder(name, shape) ==
    Node("placeholder", Name(name, 0, ""), 0, 0, shape, 0, "none", 0, 0, NoThr)

\* A builder's result: the graph it extended and the handle it returns.
Built(g, out) == [g |-> g, out |-> out]

\* Faulty variant of DenseRelu: the dense layer without its activation.
DenseLinear(g, inputs, units, name) ==
    Built(Append(g, Node("dense", name, inputs, 0, <<"None", units>>,
                         g[inputs].shape[2], "none", 0, 0, NoThr)),
          Len(g) + 1)

\* dense_relu(inputs, units, seed, name)
DenseRelu(g, inputs, units, name) ==
    LET dim_in == g[inputs].shape[2]
        dense_layer == Node("dense", name, inputs, 0, <<"None", units>>, dim_in,
                            "relu", 0, 0, NoThr)
    IN  Built(Append(g, dense_layer), Len(g) + 1)

\* tf.layers.batch_normalization(l1, center=True, scale=True, training=...)
BatchNormalization(l1, training, name) ==
    Built(Append(l1.g, Node("batch_normalization", name, l1.out, 0,
                            l1.g[l1.out].shape, 0, "none", training, 0, NoThr)),
          Len(l1.g) + 1)

\* tf.nn.dropout(l2, pkeep)
Dropout(l2, pkeep, name) ==
    Built(Append(l2.g, Node("dropout", name, l2.out, 0, l2.g[l2.out].shape, 0,
                            "none", 0, pkeep, NoThr)),
          Len(l2.g) + 1)

\* Faulty variant of DenseReluBnDrop: dropout applied before batch normalization.
DenseReluDropBn(g, inputs, units, training_phase, pkeep, name) ==
    BatchNormalization(Dropout(DenseRelu(g, inputs, units,
                                         Name(name[1], name[2], "dense_relu")),
                               pkeep, name),
                       training_phase, name)

\* Faulty variant of DenseReluBnDrop: every layer declares a mode flag of its own.
DenseReluBnDropOwnFlag(g, inputs, units, training_phase, pkeep, name) ==
    Dropout(BatchNormalization(DenseRelu(Append(g, Placeholder("training_phase", <<>>)),
                                         inputs, units,
                                         Name(name[1], name[2], "dense_relu")),
                               Len(g) + 1, name),
            pkeep, name)

\* dense_relu_bn_drop(inputs, units, seed, training_phase, pkeep, name)
DenseReluBnDrop(g, inputs, units, training_phase, pkeep, name) ==
    Dropout(BatchNormalization(DenseRelu(g, inputs, units,
                                         Name(name[1], name[2], "dense_relu")),
                               training_phase, name),
            pkeep, name)

\* layers.append(layer): the list of layer handles with the graph they are in
AppendLayer(layers, layer) == [g |-> layer.g, layers |-> Append(layers, layer.out)]

\* The loop of dense_nn over the hidden layers after the first (i counts from 0).
RECURSIVE HiddenLayers(_, _, _, _, _)
HiddenLayers(st, layer_sizes, i, training_phase, pkeep) ==
    IF i >= Len(layer_sizes) - 1 THEN st
    ELSE HiddenLayers(AppendLayer(st.layers,
                                  DenseReluBnDrop(st.g, st.layers[i + 1],
                                                  layer_sizes[i + 2], training_phase,
                                                  pkeep, Name("dense_hidden", i + 1, ""))),
                      layer_sizes, i + 1, training_phase, pkeep)

\* prediction_layer = dense_relu(layers[-1], nb_labels, seed, 'predictions')
PredictionLayer(st, nb_labels) ==
    DenseRelu(st.g, st.layers[Len(st.layers)], nb_labels, Name("predictions", 0, ""))

\* loss = tf.reduce_mean(tf.square(prediction_layer - labels)) and its summary
Loss(p, labels) ==
    [g |-> p.g \o << Node("reduce_mean_square", Name("loss", 0, ""), p.out, labels,
                          <<>>, 0, "none", 0, 0, NoThr),
                     Node("summary_scalar", Name("loss", 0, ""), Len(p.g) + 1, 0,
                          <<>>, 0, "none", 0, 0, NoThr) >>,
     predictions |-> p.out,
     loss |-> Len(p.g) + 1]

\* relative_error = tf.abs(prediction_layer - labels) / labels
RelativeErrorNode(c, labels) ==
    [g |-> Append(c.g, Node("relative_error", Name("accuracy", 0, ""), c.predictions,
                            labels, c.g[c.predictions].shape, 0, "none", 0, 0, NoThr)),
     predictions |-> c.predictions,
     loss |-> c.loss,
     relative_error |-> Len(c.g) + 1]

\* Faulty variant of Threshold2pc: 0.002 typed for 0.02.
Threshold2pcTypo == <<2, 1000>>

\* The thresholds 0.02 and 0.01 as quotients.
Threshold2pc == <<2, 100>>
Threshold1pc == <<1, 100>>

\* tf.reduce_mean(tf.cast(tf.greater(relative_error, thr), tf.float32)) and its
\* scalar summary: three nodes; the handle of the mean is Len(g) + 2.
ErrorRate(g, rel, thr, name) ==
    g \o << Node("greater", Name("accuracy", 0, ""), rel, 0, g[rel].shape, 0,
                 "none", 0, 0, thr),
            Node("reduce_mean_cast", Name("accuracy", 0, ""), Len(g) + 1, 0, <<>>, 0,
                 "none", 0, 0, NoThr),
            Node("summary_scalar", Name(name, 0, ""), Len(g) + 2, 0, <<>>, 0,
                 "none", 0, 0, NoThr) >>

\* err_2pc, then err_1pc
ErrorRates(c) ==
    [g |-> ErrorRate(ErrorRate(c.g, c.relative_error, Threshold2pc, "error_2pc"),
                     c.relative_error, Threshold1pc, "error_1pc"),
     predictions |-> c.predictions,
     loss |-> c.loss,
     err_2pc |-> Len(c.g) + 2,
     err_1pc |-> Len(c.g) + 5]

NeuralNetwork(inputs, labels, pkeep, training_phase, preds, loss, e2, e1) ==
    [inputs |-> inputs, labels |-> labels, pkeep |-> pkeep,
     training_phase |-> training_phase, predictions |-> preds, loss |-> loss,
     err_2pc |-> e2, err_1pc |-> e1]

NoBundle == NeuralNetwork(0, 0, 0, 0, 0, 0, 0, 0)

\* The four placeholders dense_nn declares in the graph it has just reset.
Placeholders(nb_features, nb_labels) ==
    << Placeholder("inputs", <<"None", nb_features>>),
       Placeholder("labels", <<"None", nb_labels>>),
       Placeholder("training_phase", <<>>),
       Placeholder("pkeep", <<>>) >>

\* nn = NeuralNetwork(...); return nn
Return(c, inputs, labels, training_phase, pkeep) ==
    [g |-> c.g, outcome |-> "returned",
     nn |-> NeuralNetwork(inputs, labels, pkeep, training_phase, c.predictions,
                          c.loss, c.err_2pc, c.err_1pc)]

\* dense_nn from the first hidden layer on, layer_sizes not empty; g holds the
\* placeholders inputs, labels, training_phase, pkeep in this order.
Construct(g, layer_sizes, nb_labels, inputs, labels, training_phase, pkeep) ==
    Return(
        ErrorRates(
            RelativeErrorNode(
                Loss(
                    PredictionLayer(
                        HiddenLayers(
                            AppendLayer(<<>>,
                                        DenseReluBnDrop(g, inputs, layer_sizes[1],
                                                        training_phase, pkeep,
                                                        Name("dense_hidden", 0, ""))),
                            layer_sizes, 0, training_phase, pkeep),
                        nb_labels),
                    labels),
                labels)),
        inputs, labels, training_phase, pkeep)

\* tf.reset_default_graph()
Reset(g) == <<>>

\* dense_nn: the graph it leaves, how it ends and what it returns.  g is the
\* default graph at the call; tf.reset_default_graph() empties it.  With no
\* hidden layer, layer_sizes[0] raises IndexError after the placeholders.
DenseNNResult(g, nb_features, layer_sizes, nb_labels) ==
    IF Len(layer_sizes) = 0
    THEN [g |-> Reset(g) \o Placeholders(nb_features, nb_labels),
          outcome |-> "IndexError", nn |-> NoBundle]
    ELSE Construct(Reset(g) \o Placeholders(nb_features, nb_labels), layer_sizes,
                   nb_labels, 1, 2, 3, 4)

-----------------------------------------------------------------------------
(* Execution of the graph *)

\* tf.nn.relu, or the identity for a layer without activation
Activation(a, z) == IF a = "relu" THEN (IF z > 0 THEN z ELSE 0) ELSE z

\* nn.predictions for the pre-activations zs of the prediction layer
Predict(g, bundle, zs) ==
    [i \in 1..Len(zs) |-> Activation(g[bundle.predictions].activation, zs[i])]

\* Faulty variant of RelativeError: the division by the absolute value of the label.
RelativeErrorAbsLabel(p, l) == TrueDiv(Abs(p - LabelVal(l)), Label(FALSE, l.mag))

\* tf.abs(prediction_layer - labels) / labels, one element
RelativeError(p, l) == TrueDiv(Abs(p - LabelVal(l)), l)

\* The value of an error-rate node h of g, given the relative errors rel.
ErrorRateValue(g, h, rel) ==
    LET close == g[g[h].src]
    IN  ReduceMean([i \in 1..Len(rel) |-> Cast(Greater(rel[i], close.thr))])

\* The mode every batch-normalization node of g runs in under the feed fd.
BnModes(g, fd) ==
    [i \in {j \in 1..Len(g) : g[j].op = "batch_normalization"} |-> fd[g[i].training]]

Unset == [kind |-> "unset", num |-> 0, den |-> 0]
NoFeed == [training |-> FALSE, z |-> <<>>, labels |-> <<>>]

-----------------------------------------------------------------------------
(* The state machine *)

Init ==
    /\ graph = <<>>
    /\ args = [nb_features |-> 0, layer_sizes |-> <<>>, nb_labels |-> 0]
    /\ outcome = "none"
    /\ nn = NoBundle
    /\ feed = NoFeed
    /\ ran = "none"
    /\ bn_mode = <<>>
    /\ predictions = <<>>
    /\ relative_error = <<>>
    /\ err_2pc = Unset
    /\ err_1pc = Unset

\* A call nn = dense_nn(nb_features, layer_sizes, nb_labels, seed).  The caller
\* rebuilds only with no session open: resetting the default graph under an
\* active session is undefined in the framework.
DenseNN ==
    /\ ran = "none"
    /\ \E nb_features \in 1..MaxFeatures, layer_sizes \in LayerSpecs,
          nb_labels \in 1..MaxLabels :
        LET r == DenseNNResult(graph, nb_features, layer_sizes, nb_labels)
        IN  /\ graph' = r.g
            /\ outcome' = r.outcome
            /\ nn' = r.nn
            /\ args' = [nb_features |-> nb_features, layer_sizes |-> layer_sizes,
                        nb_labels |-> nb_labels]
    /\ UNCHANGED <<feed, ran, bn_mode, predictions, relative_error, err_2pc, err_1pc>>

\* with tf.Session() as sess: sess.run(nn.predictions, feed_dict = {nn.inputs,
\* nn.training_phase, nn.pkeep}) on a batch of rows examples.
RunPredictions ==
    /\ outcome = "returned"
    /\ ran = "none"
    /\ \E rows \in 1..MaxRows, training \in BOOLEAN :
        \E zs \in SeqsOfLen(PreActs, rows * graph[nn.predictions].shape[2]) :
            LET fd == [h \in {nn.training_phase} |-> training]
            IN  /\ ran' = "predict"
                /\ bn_mode' = BnModes(graph, fd)
                /\ predictions' = Predict(graph, nn, zs)
    /\ UNCHANGED <<graph, args, outcome, nn, feed, relative_error, err_2pc, err_1pc>>

\* The session ends and the caller drops what it fetched.
CloseSession ==
    /\ ran # "none"
    /\ ran' = "none"
    /\ bn_mode' = <<>>
    /\ predictions' = <<>>
    /\ relative_error' = <<>>
    /\ err_2pc' = Unset
    /\ err_1pc' = Unset
    /\ UNCHANGED <<graph, args, outcome, nn, feed>>

Next == DenseNN \/ RunPredictions \/ CloseSession

Spec == Init /\ [][Next]_vars

\* The metrics are functions of the batch: the initial states are the network
\* dense_nn(1, [1], 1, seed) with every batch of 1..MaxBatch rows prepared, and
\* the one step evaluates it.
InitMetrics ==
    LET r == DenseNNResult(<<>>, 1, <<1>>, 1)
    IN  /\ graph = r.g
        /\ args = [nb_features |-> 1, layer_sizes |-> <<1>>, nb_labels |-> 1]
        /\ outcome = r.outcome
        /\ nn = r.nn
        /\ \E rows \in 1..MaxBatch :
            \E zs \in SeqsOfLen(EvalPreActs, rows), ls \in SeqsOfLen(EvalLabels, rows) :
                feed = [training |-> FALSE, z |-> zs, labels |-> ls]
        /\ ran = "none"
        /\ bn_mode = <<>>
        /\ predictions = <<>>
        /\ relative_error = <<>>
        /\ err_2pc = Unset
        /\ err_1pc = Unset

\* sess.run([nn.predictions, relative_error, nn.err_2pc, nn.err_1pc], feed_dict)
Evaluate ==
    /\ outcome = "returned"
    /\ ran = "none"
    /\ feed # NoFeed
    /\ LET fd == [h \in {nn.training_phase} |-> feed.training]
           preds == Predict(graph, nn, feed.z)
           rel == [i \in 1..Len(preds) |-> RelativeError(preds[i], feed.labels[i])]
       IN  /\ ran' = "evaluate"
           /\ bn_mode' = BnModes(graph, fd)
           /\ predictions' = preds
           /\ relative_error' = rel
           /\ err_2pc' = ErrorRateValue(graph, nn.err_2pc, rel)
           /\ err_1pc' = ErrorRateValue(graph, nn.err_1pc, rel)
    /\ UNCHANGED <<graph, args, outcome, nn, feed>>

NextMetrics == Evaluate

SpecMetrics == InitMetrics /\ [][NextMetrics]_vars

-----------------------------------------------------------------------------
(* Properties of the construction (checked under Spec) *)

Called == outcome # "none"

Nodes(op) == {i \in 1..Len(graph) : graph[i].op = op}

Named(scope) == {i \in 1..Len(graph) : graph[i].name[1] = scope}

\* The nodes that take node i as an input.
Consumers(i) == {j \in 1..Len(graph) : graph[j].src = i \/ graph[j].src2 = i}

\* C1: dense_nn called with layer_sizes = [] returns a valid bundle whose
\* prediction head, the final dense_relu, takes the input placeholder as input.
C1_EmptyLayerSizesHeadOnInputs ==
    (Called /\ args.layer_sizes = <<>>) =>
        /\ outcome = "returned"
        /\ nn # NoBundle
        /\ graph[nn.predictions].op = "dense"
        /\ graph[nn.predictions].src = nn.inputs
        /\ graph[nn.inputs].name[1] = "inputs"

\* C2: for every nb_features > 0, nb_labels > 0 and every sequence layer_sizes of
\* positive integers, the empty one included, dense_nn returns a bundle whose
\* predictions have shape [None, nb_labels].
C2_PredictionsShape ==
    Called =>
        /\ outcome = "returned"
        /\ graph[nn.predictions].shape = <<"None", args.nb_labels>>

\* C3: every regularized layer applies dense+ReLU, then batch normalization,
\* then dropout: the batch normalization consumes the ReLU output of the layer's
\* dense node and nothing else does, the dropout consumes the batch
\* normalization and nothing else does, and what the next stage consumes is the
\* dropout; a returned network has one such triple per entry of layer_sizes.
C3_ActivateNormalizeDrop ==
    /\ \A i \in Nodes("batch_normalization") :
        /\ graph[graph[i].src].op = "dense"
        /\ graph[graph[i].src].activation = "relu"
        /\ graph[graph[i].src].name = Name(graph[i].name[1], graph[i].name[2], "dense_relu")
        /\ Consumers(graph[i].src) = {i}
        /\ \E j \in Nodes("dropout") : Consumers(i) = {j} /\ graph[j].name = graph[i].name
    /\ \A j \in Nodes("dropout") :
        /\ graph[j].src \in Nodes("batch_normalization")
        /\ Consumers(j) # {}
        /\ \A k \in Consumers(j) : graph[k].op = "dense"
    /\ \A k \in Nodes("dense") :
        graph[k].name[3] = "dense_relu" => Consumers(k) \subseteq Nodes("batch_normalization")
    /\ \A k \in Nodes("dense") :
        graph[k].src \in Nodes("dropout") \/ graph[k].src = nn.inputs
    /\ outcome = "returned" =>
        /\ Cardinality(Nodes("batch_normalization")) = Len(args.layer_sizes)
        /\ Cardinality(Nodes("dropout")) = Len(args.layer_sizes)
        /\ \A n \in 1..Len(args.layer_sizes) :
            \E j \in Nodes("dropout") :
                /\ graph[j].name = Name("dense_hidden", n - 1, "")
                /\ graph[j].shape = <<"None", args.layer_sizes[n]>>

\* C3 witness: a network of two regularized layers has been built.
C3_Witness ==
    /\ outcome = "returned"
    /\ Len(args.layer_sizes) = 2
    /\ Cardinality(Nodes("dropout")) = 2

\* C4: after any sequence of dense_nn calls the graph holds only what the most
\* recent call built: one set of the four placeholders and one bundle's nodes,
\* exactly the graph a call builds from an empty graph, and that call has
\* produced exactly one bundle.
C4_OnlyLastCallOneBundle ==
    Called =>
        /\ graph = DenseNNResult(<<>>, args.nb_features, args.layer_sizes, args.nb_labels).g
        /\ Cardinality(Nodes("placeholder")) = Len(Placeholders(args.nb_features, args.nb_labels))
        /\ \A scope \in {"inputs", "labels", "training_phase", "pkeep"} :
            Cardinality(Named(scope) \cap Nodes("placeholder")) = 1
        /\ outcome = "returned"
        /\ nn # NoBundle
        /\ Cardinality(Named("predictions")) = 1

\* What of C4 does hold: whatever the call's end, the graph is the one that call
\* builds from an empty graph, with one set of placeholders.
GraphIsLastCallOnly ==
    Called =>
        /\ graph = DenseNNResult(<<>>, args.nb_features, args.layer_sizes, args.nb_labels).g
        /\ \A scope \in {"inputs", "labels", "training_phase", "pkeep"} :
            Cardinality(Named(scope) \cap Nodes("placeholder")) = 1

\* C5: every regularized layer of a built network gets the one training_phase
\* handle and the one pkeep handle the call declared, so at every execution all
\* batch-normalization nodes run in the same mode, the one fed.
C5_SharedModeFlag ==
    /\ Called =>
        /\ Cardinality(Named("training_phase")) = 1
        /\ Cardinality(Named("pkeep")) = 1
    /\ \A i \in Nodes("batch_normalization") :
        /\ graph[i].training = nn.training_phase
        /\ graph[graph[i].training].name[1] = "training_phase"
        /\ graph[graph[i].training].op = "placeholder"
    /\ \A j \in Nodes("dropout") :
        /\ graph[j].pkeep = nn.pkeep
        /\ graph[graph[j].pkeep].name[1] = "pkeep"
        /\ graph[graph[j].pkeep].op = "placeholder"
    /\ ran # "none" =>
        /\ DOMAIN bn_mode = Nodes("batch_normalization")
        /\ \A i, j \in DOMAIN bn_mode : bn_mode[i] = bn_mode[j]

\* C5 witness: a network of two regularized layers has run in training mode.
C5_Witness ==
    /\ ran = "predict"
    /\ Cardinality(DOMAIN bn_mode) = 2
    /\ \A i \in DOMAIN bn_mode : bn_mode[i] = TRUE

\* C9: the prediction head is one dense layer with ReLU and nb_labels units on
\* the output of the last hidden stage, without batch normalization or dropout
\* after it, so every fetched prediction is >= 0.
C9_HeadIsDenseRelu ==
    outcome = "returned" =>
        /\ Named("predictions") = {nn.predictions}
        /\ graph[nn.predictions].op = "dense"
        /\ graph[nn.predictions].activation = "relu"
        /\ graph[nn.predictions].shape = <<"None", args.nb_labels>>
        /\ graph[nn.predictions].src \in Nodes("dropout")
        /\ graph[graph[nn.predictions].src].name =
               Name("dense_hidden", Len(args.layer_sizes) - 1, "")
        /\ Consumers(nn.predictions) \cap (Nodes("batch_normalization") \cup Nodes("dropout")) = {}
        /\ \A j \in Nodes("batch_normalization") \cup Nodes("dropout") : j < nn.predictions
        /\ ran # "none" => \A i \in 1..Len(predictions) : predictions[i] >= 0

\* C9 witness: predictions fetched with a negative and a positive pre-activation.
C9_Witness ==
    /\ ran = "predict"
    /\ \E i, j \in 1..Len(predictions) : predictions[i] = 0 /\ predictions[j] > 0

-----------------------------------------------------------------------------
(* Properties of the metrics (checked under SpecMetrics) *)

Evaluated == ran = "evaluate"

Elements == 1..Len(feed.labels)

ZeroLabel(i) == feed.labels[i].mag = 0

NegativeLabel(i) == feed.labels[i].neg /\ feed.labels[i].mag # 0

PositiveLabel(i) == ~feed.labels[i].neg /\ feed.labels[i].mag # 0

Artifact(x) == x.kind \in {"nan", "inf", "-inf"}

\* |prediction - label| / label > n/d strictly, stated on the fed numbers: for a
\* positive label by cross-multiplication; a quotient by a negative label is
\* <= 0; a quotient by zero is +Inf (greater) when the prediction is not 0 and
\* the zero is 0.0, and NaN or -Inf (not greater) otherwise.
Exceeds(i, n, d) ==
    \/ PositiveLabel(i) /\ d * Abs(predictions[i] - feed.labels[i].mag) > n * feed.labels[i].mag
    \/ ZeroLabel(i) /\ ~feed.labels[i].neg /\ predictions[i] # 0

C7_ZeroLabelArtifactInMetrics ==
    (Evaluated /\ \E i \in Elements : ZeroLabel(i)) =>
        /\ \E i \in Elements : ZeroLabel(i) /\ Artifact(relative_error[i])
        /\ Artifact(err_2pc)
        /\ Artifact(err_1pc)

\* C7 amended: a label of 0 puts NaN (prediction 0) or an infinity in
\* relative_error and the evaluation completes, but the artifact does not reach
\* the metrics: err_2pc and err_1pc stay fractions in [0, 1], the comparison
\* counting the element when its relative error is +Inf and not when it is NaN
\* or -Inf.
C7_ZeroLabelArtifactStopsAtComparison ==
    Evaluated =>
        /\ \A i \in Elements : ZeroLabel(i) =>
            /\ Artifact(relative_error[i])
            /\ relative_error[i] = NaN <=> predictions[i] = 0
        /\ \A i \in Elements : ~ZeroLabel(i) => relative_error[i].kind = "fin"
        /\ \A e \in {err_2pc, err_1pc} :
            e.kind = "fin" /\ e.den = Len(feed.labels) /\ 0 <= e.num /\ e.num <= e.den
        /\ (\A i \in Elements : ZeroLabel(i)) =>
            /\ err_2pc.num = Cardinality({i \in Elements : relative_error[i] = PosInf})
            /\ err_1pc = err_2pc

\* C7 witness: a batch holding a zero label with prediction 0 (NaN) and one with
\* a positive prediction (+Inf) has been evaluated.
C7_Witness ==
    /\ Evaluated
    /\ \E i, j \in Elements :
        /\ ZeroLabel(i) /\ relative_error[i] = NaN
        /\ ZeroLabel(j) /\ relative_error[j] = PosInf
    /\ err_2pc.kind = "fin"

\* C8: for every batch of predictions and non-zero labels, err_2pc <= err_1pc.
C8_LooserThresholdCountsLess ==
    (Evaluated /\ \A i \in Elements : ~ZeroLabel(i)) => LessEq(err_2pc, err_1pc)

\* C8 witness: a batch of non-zero labels where the two rates differ and neither
\* is zero.
C8_Witness ==
    /\ Evaluated
    /\ \A i \in Elements : ~ZeroLabel(i)
    /\ 0 < err_2pc.num
    /\ err_2pc.num < err_1pc.num

\* C10: an element with a negative label has a relative error <= 0 and is
\* counted by neither metric, whatever its prediction; a batch whose labels are
\* all negative gives err_2pc = err_1pc = 0.
C10_NegativeLabelsNeverCounted ==
    Evaluated =>
        /\ \A i \in Elements : NegativeLabel(i) =>
            /\ relative_error[i].kind = "fin"
            /\ relative_error[i].den < 0
            /\ relative_error[i].num >= 0
            /\ ~Greater(relative_error[i], Threshold2pc)
            /\ ~Greater(relative_error[i], Threshold1pc)
        /\ \A e \in {err_2pc, err_1pc} :
            e.num <= Cardinality({i \in Elements : ~NegativeLabel(i)})
        /\ (\A i \in Elements : NegativeLabel(i)) =>
            IsFraction(err_2pc, 0, 1) /\ IsFraction(err_1pc, 0, 1)

\* C10 witness: a batch of negative labels only, with predictions more than
\* twice the label's magnitude away, has been evaluated.
C10_Witness ==
    /\ Evaluated
    /\ Len(feed.labels) >= 2
    /\ \A i \in Elements :
        NegativeLabel(i) /\ Abs(predictions[i] - LabelVal(feed.labels[i])) > 2 * feed.labels[i].mag

====
